---- MODULE Spec2Model ----
(***************************************************************************)
(* Model of code-gen.py: a Streamlit script that registers every generated *)
(* QR code in the sqlite table `files` with an expiry time, sweeps expired *)
(* rows (and their temporary files) at the top of every script run, then   *)
(* renders the QR image and lists the table.                               *)
(*                                                                         *)
(* Every browser session executes the whole script top to bottom on each   *)
(* interaction, on its own sqlite connection, so several script runs can   *)
(* be in flight at once over the same database file and the same temp      *)
(* directory.  A run is modelled as a process whose pc walks the script.   *)
(***************************************************************************)
EXTENDS Integers, Sequences, FiniteSets

\* ------------------------------------------------------------------ bounds
MaxClock == 3      \* the wall clock is observed over 0..MaxClock ticks
Day      == 2      \* ticks in one day (timedelta(days=1))
MaxDays  == 1      \* largest value of the "Expire in Days" slider explored
MaxUUID  == 2      \* number of uuid4 values drawn in one behaviour

Runs   == {1, 2}   \* script runs (browser sessions) that may overlap
None   == <<>>     \* Python None and the empty string (both falsy)
Texts  == {<<"a">>}  \* non-empty text inputs / uploaded file names

VARIABLES
    clock,        \* datetime.now(), in ticks
    nextuuid,     \* number of uuid4 values handed out so far
    files,        \* committed content of table files, in rowid order
    pending,      \* per connection: statements executed but not committed
    writer,       \* the connections holding sqlite's write lock (at most one)
    stuck,        \* the connections left with a PENDING lock by a failed commit
    stale,        \* sessions whose lock is held by the connection of an ended run
    fs,           \* paths that exist under TEMP_DIR
    pc,           \* per run: position in the script
    now,          \* per run: local `now` of cleanup_expired_files
    rows,         \* per run: local `rows` of cleanup_expired_files
    idx,          \* per run: position of the for loop in rows
    qr_mode,      \* per run: the "QR Type" radio
    expire_days,  \* per run: the "Expire in Days" slider
    input,        \* per run: text typed / name of the uploaded file, or None
    uid,          \* per run: local `uid`
    expires_at,   \* per run: local `expires_at` of the create branch
    uploaded_at,  \* per run: datetime.now() of line 228 / 250, in the INSERT's tuple
    qr_data,      \* per run: local `qr_data`
    shown,        \* per run: st.image(qr_img) has been called
    qr            \* the call of generate_qr under study: arguments, locals

registry == <<clock, nextuuid, files, pending, writer, stuck, stale, fs, pc, now, rows,
              idx,
              qr_mode, expire_days, input, uid, expires_at, uploaded_at, qr_data,
              shown>>

vars == <<registry, qr>>

shared == <<clock, nextuuid, files, pending, writer, stuck, stale, fs>>
inputs == <<qr_mode, expire_days, input>>
sweepLocals == <<now, rows, idx>>
createLocals == <<uid, expires_at, uploaded_at, qr_data>>

\* ------------------------------------------------------------ time as text
\* datetime.isoformat(): "<date>T<time of day>"
isoformat(t) == <<t \div Day, t % Day>>

\* datetime.fromisoformat()
fromisoformat(s) == s[1] * Day + s[2]

\* timedelta(days=d)
timedelta(d) == d * Day

\* Python truthiness of a str-or-None value
Truthy(v) == v # None

\* ---------------------------------------------------------- the sql engine
\* one row of table files (CREATE TABLE files, column order of the INSERT)
Row(u, name, path, uploaded, expires, url) ==
    [uuid |-> u, file_name |-> name, local_path |-> path,
     uploaded_at |-> uploaded, expires_at |-> expires, qr_url |-> url,
     scans |-> 0]

Range(s) == {s[i] : i \in 1..Len(s)}

\* the connection of the run of r may write when no other connection holds the
\* write lock: neither another session's nor the one an ended run of r left
CanWrite(r) == writer \subseteq {r} /\ r \notin stale

NoPending == [ins |-> <<>>, del |-> {}]

\* DELETE FROM files WHERE uuid=?  (inside the connection's open transaction)
ExecDelete(p, u) == [p EXCEPT !.del = @ \cup {u}]

\* (mutant) INSERT OR REPLACE keyed on the payload
ExecInsert_replace(tbl, p, row) ==
    [ins |-> Append(p.ins, row),
     del |-> p.del \cup {tbl[i].uuid : i \in {j \in 1..Len(tbl) : tbl[j].qr_url = row.qr_url}}]

\* INSERT INTO files VALUES(...)  (inside the connection's open transaction):
\* a plain INSERT adds the row and touches no row of the table tbl
ExecInsert(tbl, p, row) == [p EXCEPT !.ins = Append(@, row)]

Keep(p, row) == row.uuid \notin p.del

\* (mutant) a commit with inserts rewrites the table
Commit_rewrite(tbl, p) ==
    IF p.ins # <<>> THEN p.ins
    ELSE SelectSeq(tbl, LAMBDA row : Keep(p, row))

\* conn.commit(): the transaction's deletes and inserts become the table
Commit(tbl, p) == SelectSeq(tbl, LAMBDA row : Keep(p, row)) \o p.ins

\* the connection that holds the lock of session r is finalised (nothing in
\* the script calls close() or rollback(): the object goes when the garbage
\* collector gets to it): its open transaction is rolled back and its locks
\* are released
Rollback(r) ==
    /\ pending' = [pending EXCEPT ![r] = NoPending]
    /\ writer' = writer \ {r}
    /\ stuck' = stuck \ {r}
    /\ stale' = stale \ {r}

\* what the connection of the run of r has executed and not committed
Mine(r) == IF r \in stale THEN NoPending ELSE pending[r]

\* an exception ends the script run of r.  A connection with no transaction
\* holds nothing.  One with a transaction is finalised at once, or lives on
\* with the transaction open and its locks held; after a commit that failed
\* the lock it keeps is the PENDING lock, which shuts out readers as well as
\* writers.
Abandon(r, commitFailed) ==
    IF r \in stale \/ r \notin writer
    THEN UNCHANGED <<pending, writer, stuck, stale>>
    ELSE \E closed \in BOOLEAN :
            IF closed THEN Rollback(r)
            ELSE /\ UNCHANGED <<pending, writer>>
                 /\ stale' = stale \cup {r}
                 /\ stuck' = IF commitFailed THEN stuck \cup {r} ELSE stuck

\* a statement that reads gets its SHARED lock
CanRead == stuck = {}

\* no call of generate_qr is followed
NoCall == [stage |-> "none"]

\* -------------------------------------------------------------------- Init
Init ==
    /\ qr = NoCall
    /\ clock = 0
    /\ nextuuid = 0
    /\ files = <<>>
    /\ pending = [r \in Runs |-> NoPending]
    /\ writer = {}
    /\ stuck = {}
    /\ stale = {}
    /\ fs = {}
    /\ pc = [r \in Runs |-> "idle"]
    /\ now = [r \in Runs |-> 0]
    /\ rows = [r \in Runs |-> <<>>]
    /\ idx = [r \in Runs |-> 0]
    /\ qr_mode = [r \in Runs |-> "URL / Text"]
    /\ expire_days = [r \in Runs |-> 1]
    /\ input = [r \in Runs |-> None]
    /\ uid = [r \in Runs |-> 0]
    /\ expires_at = [r \in Runs |-> 0]
    /\ uploaded_at = [r \in Runs |-> 0]
    /\ qr_data = [r \in Runs |-> None]
    /\ shown = [r \in Runs |-> FALSE]

\* ------------------------------------------------------------- environment
\* the wall clock advances
Tick ==
    /\ clock < MaxClock
    /\ clock' = clock + 1
    /\ UNCHANGED <<qr, nextuuid, files, pending, writer, stuck, stale, fs, pc,
                   now, rows, idx,
                   qr_mode, expire_days, input, uid, expires_at, uploaded_at, qr_data,
                   shown>>

\* something outside the app deletes a file of the temp directory
ExternalDelete ==
    /\ \E p \in fs : fs' = fs \ {p}
    /\ UNCHANGED <<qr, clock, nextuuid, files, pending, writer, stuck, stale,
                   pc, now, rows,
                   idx, qr_mode, expire_days, input, uid, expires_at, uploaded_at,
                   qr_data, shown>>

\* ------------------------------------------------------------ a script run
\* the uuid4 values that runs under way will still ask for
Owed == Cardinality({s \in Runs : Truthy(input[s]) /\ uid[s] = 0})

\* A widget interaction starts a rerun of the script with the widget values
\* m (QR Type), d (Expire in Days) and i (the text typed or the file
\* uploaded); what the previous run left on the page is cleared.  Line 20 opens
\* a new connection and lines 23-34 (CREATE TABLE IF NOT EXISTS, commit) read
\* the schema of the table, which is there.
BeginWith(r, m, d, i) ==
    /\ pc[r] \in {"idle", "aborted"}
    /\ Truthy(i) => nextuuid + Owed < MaxUUID
    /\ CanRead
    /\ qr_mode' = [qr_mode EXCEPT ![r] = m]
    /\ expire_days' = [expire_days EXCEPT ![r] = d]
    /\ input' = [input EXCEPT ![r] = i]
    /\ pc' = [pc EXCEPT ![r] = "cleanup_now"]
    /\ shown' = [shown EXCEPT ![r] = FALSE]
    /\ UNCHANGED <<qr, shared, sweepLocals, createLocals>>

\* line 23 raises (database is locked: a connection sits on its PENDING lock
\* past the busy timeout) and the rerun ends before line 56
BeginFail(r) ==
    /\ pc[r] \in {"idle", "aborted"}
    /\ ~CanRead
    /\ pc' = [pc EXCEPT ![r] = "aborted"]
    /\ shown' = [shown EXCEPT ![r] = FALSE]
    /\ UNCHANGED <<qr, shared, sweepLocals, inputs, createLocals>>

Modes == {"URL / Text", "Upload File"}

Begin(r) ==
    \E m \in Modes, d \in 1..MaxDays, i \in Texts \cup {None} :
        BeginWith(r, m, d, i)

\* ------------------------------------------------- cleanup_expired_files()
\* (mutant) the test written with <=
Expired_le(row, t) ==
    /\ Truthy(row.expires_at)
    /\ fromisoformat(row.expires_at) <= t

\* the test of lines 45-47 on one fetched row
Expired(row, t) ==
    /\ Truthy(row.expires_at)
    /\ fromisoformat(row.expires_at) < t

\* the first position from i on whose row passes the test, or Len(rs) + 1
RECURSIVE Scan(_, _, _)
Scan(rs, i, t) ==
    IF i > Len(rs) THEN i
    ELSE IF Expired(rs[i], t) THEN i
    ELSE Scan(rs, i + 1, t)

\* (mutant) the loop is left after the first DELETE
NextExpired_break(rs, i, t) ==
    IF i > 1 THEN Len(rs) + 1 ELSE Scan(rs, i, t)

\* line 44: the for loop moves on to the next row that passes the test
NextExpired(rs, i, t) == Scan(rs, i, t)

\* where the loop stands after looking for the next expired row from i
LoopPc(rs, i, t) ==
    IF NextExpired(rs, i, t) > Len(rs) THEN "cleanup_commit"
    ELSE "cleanup_exists"

\* the three columns the SELECT of line 41 fetches, in rowid order
Fetch(tbl) ==
    [i \in 1..Len(tbl) |->
        [uuid |-> tbl[i].uuid, local_path |-> tbl[i].local_path,
         expires_at |-> tbl[i].expires_at]]

\* line 40: now = datetime.now()
CleanupNow(r) ==
    /\ pc[r] = "cleanup_now"
    /\ now' = [now EXCEPT ![r] = clock]
    /\ pc' = [pc EXCEPT ![r] = "cleanup_select"]
    /\ UNCHANGED <<qr, shared, rows, idx, inputs, createLocals, shown>>

\* lines 41-42: SELECT uuid, local_path, expires_at FROM files; fetchall()
CleanupSelect(r) ==
    /\ pc[r] = "cleanup_select"
    /\ CanRead
    /\ rows' = [rows EXCEPT ![r] = Fetch(files)]
    /\ idx' = [idx EXCEPT ![r] = NextExpired(Fetch(files), 1, now[r])]
    /\ pc' = [pc EXCEPT ![r] = LoopPc(Fetch(files), 1, now[r])]
    /\ UNCHANGED <<qr, shared, now, inputs, createLocals, shown>>

\* line 48: if local_path and os.path.exists(local_path)
CleanupExists(r) ==
    /\ pc[r] = "cleanup_exists"
    /\ pc' = [pc EXCEPT ![r] =
                IF Truthy(rows[r][idx[r]].local_path)
                   /\ rows[r][idx[r]].local_path \in fs
                THEN "cleanup_remove" ELSE "cleanup_delete"]
    /\ UNCHANGED <<qr, shared, sweepLocals, inputs, createLocals, shown>>

\* (mutant) no try statement around os.remove
AfterRemove_uncaught(raised) == IF raised THEN "aborted" ELSE "cleanup_delete"

\* lines 49-52: try: os.remove(...) except: pass -- where control goes next
AfterRemove(raised) == "cleanup_delete"

\* line 50: os.remove(local_path) removes the file, or raises (the file
\* vanished since line 48, or the OS refuses) and leaves the directory alone
CleanupRemove(r) ==
    /\ pc[r] = "cleanup_remove"
    /\ \E raised \in BOOLEAN :
          /\ ~raised => rows[r][idx[r]].local_path \in fs
          /\ fs' = IF raised THEN fs ELSE fs \ {rows[r][idx[r]].local_path}
          /\ pc' = [pc EXCEPT ![r] = AfterRemove(raised)]
    /\ UNCHANGED <<qr, clock, nextuuid, files, pending, writer, stuck, stale,
                   sweepLocals,
                   inputs, createLocals, shown>>

\* line 53: c.execute("DELETE FROM files WHERE uuid=?", (uuid_val,))
CleanupDelete(r) ==
    /\ pc[r] = "cleanup_delete"
    /\ CanWrite(r)
    /\ writer' = {r}
    /\ pending' = [pending EXCEPT ![r] = ExecDelete(@, rows[r][idx[r]].uuid)]
    /\ idx' = [idx EXCEPT ![r] = NextExpired(rows[r], idx[r] + 1, now[r])]
    /\ pc' = [pc EXCEPT ![r] = LoopPc(rows[r], idx[r] + 1, now[r])]
    /\ UNCHANGED <<stuck, stale, qr, clock, nextuuid, files, fs, now, rows, inputs,
                   createLocals, shown>>

\* the script run is over: its widget values and locals are gone
Forget(r) ==
    /\ now' = [now EXCEPT ![r] = 0]
    /\ rows' = [rows EXCEPT ![r] = <<>>]
    /\ idx' = [idx EXCEPT ![r] = 0]
    /\ qr_mode' = [qr_mode EXCEPT ![r] = "URL / Text"]
    /\ expire_days' = [expire_days EXCEPT ![r] = 1]
    /\ input' = [input EXCEPT ![r] = None]
    /\ uid' = [uid EXCEPT ![r] = 0]
    /\ expires_at' = [expires_at EXCEPT ![r] = 0]
    /\ uploaded_at' = [uploaded_at EXCEPT ![r] = 0]
    /\ qr_data' = [qr_data EXCEPT ![r] = None]

\* an exception leaves the script at `to`: nothing catches it at module
\* level, so the run is over ("aborted") and its locals are gone
Exit(r, to) ==
    /\ pc' = [pc EXCEPT ![r] = to]
    /\ IF to = "aborted" THEN Forget(r)
       ELSE UNCHANGED <<qr, sweepLocals, inputs, createLocals>>

\* line 41 raises (database is locked: another connection sits on its
\* PENDING lock past the busy timeout)
CleanupSelectFail(r) ==
    /\ pc[r] = "cleanup_select"
    /\ ~CanRead
    /\ Exit(r, "aborted")
    /\ UNCHANGED <<qr, shared, shown>>

\* line 53 raises (database locked past the busy timeout, disk error)
CleanupDeleteFail(r) ==
    /\ pc[r] = "cleanup_delete"
    /\ Abandon(r, FALSE)
    /\ Exit(r, "aborted")
    /\ UNCHANGED <<qr, clock, nextuuid, files, fs, shown>>

\* lines 217-222, 235-237: which branch of the main column runs
AfterCleanup(m, i) ==
    IF ~Truthy(i) THEN "analytics"
    ELSE IF m = "URL / Text" THEN "text_expiry"
    ELSE "file_write"

\* line 54: conn.commit(); then the script goes on to the widgets
CleanupCommit(r) ==
    /\ pc[r] = "cleanup_commit"
    /\ files' = Commit(files, Mine(r))
    /\ IF r \in stale THEN UNCHANGED <<pending, writer>>
       ELSE /\ pending' = [pending EXCEPT ![r] = NoPending]
            /\ writer' = writer \ {r}
    /\ rows' = [rows EXCEPT ![r] = <<>>]
    /\ idx' = [idx EXCEPT ![r] = 0]
    /\ qr_data' = [qr_data EXCEPT ![r] =
                     IF qr_mode[r] = "URL / Text" THEN input[r] ELSE None]
    /\ pc' = [pc EXCEPT ![r] = AfterCleanup(qr_mode[r], input[r])]
    /\ UNCHANGED <<stuck, stale, qr, clock, nextuuid, fs, now, inputs, uid,
                   expires_at, uploaded_at, shown>>

\* line 54 raises (database is locked: a reader holds its SHARED lock past the
\* busy timeout; disk error).  With no DELETE executed there is no
\* transaction to commit and conn.commit() does nothing.
CleanupCommitFail(r) ==
    /\ pc[r] = "cleanup_commit"
    /\ r \in writer \ stale
    /\ Abandon(r, TRUE)
    /\ Exit(r, "aborted")
    /\ UNCHANGED <<qr, clock, nextuuid, files, fs, shown>>

\* the connection an ended run of session r left behind is finalised
ConnClose(r) ==
    /\ r \in stale
    /\ Rollback(r)
    /\ UNCHANGED <<qr, clock, nextuuid, files, fs, pc, sweepLocals, inputs,
                   createLocals, shown>>

\* -------------------------------------------------------------- the create
\* uuid.uuid4(): a value no earlier call returned
uuid4(n) == n + 1

\* line 239: os.path.join(TEMP_DIR, f"{uid}_{uploaded_file.name}")
PathOf(u, name) == <<u, name>>

\* line 244: f"file://{path}"
FileUrl(path) == <<"file://", path>>

\* lines 224, 245: datetime.now() + timedelta(days=expire_days)
ExpiryAt(t, d) == t + timedelta(d)

\* lines 223-224 (the text is not empty)
TextExpiry(r) ==
    /\ pc[r] = "text_expiry"
    /\ nextuuid' = uuid4(nextuuid)
    /\ uid' = [uid EXCEPT ![r] = uuid4(nextuuid)]
    /\ expires_at' = [expires_at EXCEPT ![r] = ExpiryAt(clock, expire_days[r])]
    /\ pc' = [pc EXCEPT ![r] = "create_args"]
    /\ UNCHANGED <<qr, clock, files, pending, writer, stuck, stale, fs,
                   sweepLocals, inputs, uploaded_at, qr_data, shown>>

\* lines 238-242 (a file was uploaded): the bytes are written under TEMP_DIR
FileWrite(r) ==
    /\ pc[r] = "file_write"
    /\ nextuuid' = uuid4(nextuuid)
    /\ uid' = [uid EXCEPT ![r] = uuid4(nextuuid)]
    /\ fs' = fs \cup {PathOf(uuid4(nextuuid), input[r])}
    /\ pc' = [pc EXCEPT ![r] = "file_expiry"]
    /\ UNCHANGED <<qr, clock, files, pending, writer, stuck, stale,
                   sweepLocals, inputs,
                   expires_at, uploaded_at, qr_data, shown>>

\* lines 241-242 raise (OSError: name too long, disk full, no permission):
\* the uuid is spent, the run ends, and the file is there or not according to
\* whether open() or write() raised
FileWriteFail(r) ==
    /\ pc[r] = "file_write"
    /\ nextuuid' = uuid4(nextuuid)
    /\ \E created \in BOOLEAN :
          fs' = IF created THEN fs \cup {PathOf(uuid4(nextuuid), input[r])}
                ELSE fs
    /\ pc' = [pc EXCEPT ![r] = "aborted"]
    /\ Forget(r)
    /\ UNCHANGED <<qr, clock, files, pending, writer, stuck, stale, shown>>

\* lines 244-245
FileExpiry(r) ==
    /\ pc[r] = "file_expiry"
    /\ qr_data' = [qr_data EXCEPT ![r] = FileUrl(PathOf(uid[r], input[r]))]
    /\ expires_at' = [expires_at EXCEPT ![r] = ExpiryAt(clock, expire_days[r])]
    /\ pc' = [pc EXCEPT ![r] = "create_args"]
    /\ UNCHANGED <<qr, shared, sweepLocals, inputs, uid, uploaded_at, shown>>

\* lines 227-230, 249-252: the arguments of c.execute are evaluated, the
\* second datetime.now() among them, before execute is entered (where the run
\* may wait for the write lock)
CreateArgs(r) ==
    /\ pc[r] = "create_args"
    /\ uploaded_at' = [uploaded_at EXCEPT ![r] = clock]
    /\ pc' = [pc EXCEPT ![r] = "create_insert"]
    /\ UNCHANGED <<qr, shared, sweepLocals, inputs, uid, expires_at, qr_data,
                   shown>>

\* the tuple bound to the INSERT of lines 225-231 / 247-253; t is the value
\* of the second datetime.now(), read while the tuple was built
NewRow(m, u, i, exp, data, t) ==
    Row(u, i,
        IF m = "URL / Text" THEN None ELSE PathOf(u, i),
        isoformat(t), isoformat(exp), data)

\* uuid TEXT PRIMARY KEY
KeyFree(tbl, p, u) ==
    /\ \A row \in Range(tbl) : row.uuid # u
    /\ \A row \in Range(p.ins) : row.uuid # u

\* lines 225-231, 247-253: c.execute("INSERT INTO files VALUES(?,?,?,?,?,?,0)")
CreateInsert(r) ==
    /\ pc[r] = "create_insert"
    /\ CanWrite(r)
    /\ KeyFree(files, pending[r], uid[r])
    /\ writer' = {r}
    /\ pending' = [pending EXCEPT ![r] =
                     ExecInsert(files, @, NewRow(qr_mode[r], uid[r], input[r],
                                          expires_at[r], qr_data[r],
                                          uploaded_at[r]))]
    /\ pc' = [pc EXCEPT ![r] = "create_commit"]
    /\ UNCHANGED <<stuck, stale, qr, clock, nextuuid, files, fs, sweepLocals,
                   inputs,
                   createLocals, shown>>

\* (mutant) the error is caught and the script carries on
AfterStorageError_caught == "render"

\* where the script goes when the INSERT or its commit raises: no try
\* statement surrounds lines 225-232 / 247-254
AfterStorageError == "aborted"

\* the INSERT raises (database locked past the busy timeout, disk error,
\* primary key taken)
CreateInsertFail(r) ==
    /\ pc[r] = "create_insert"
    /\ Abandon(r, FALSE)
    /\ Exit(r, AfterStorageError)
    /\ UNCHANGED <<qr, clock, nextuuid, files, fs, shown>>

\* lines 232, 254: conn.commit()
CreateCommit(r) ==
    /\ pc[r] = "create_commit"
    /\ files' = Commit(files, pending[r])
    /\ pending' = [pending EXCEPT ![r] = NoPending]
    /\ writer' = writer \ {r}
    /\ pc' = [pc EXCEPT ![r] = "render"]
    /\ UNCHANGED <<stuck, stale, qr, clock, nextuuid, fs, sweepLocals, inputs,
                   createLocals,
                   shown>>

\* lines 232, 254 raise
CreateCommitFail(r) ==
    /\ pc[r] = "create_commit"
    /\ Abandon(r, TRUE)
    /\ Exit(r, AfterStorageError)
    /\ UNCHANGED <<qr, clock, nextuuid, files, fs, shown>>

\* lines 261-281: generate_qr returns and st.image shows the picture
Render(r) ==
    /\ pc[r] = "render"
    /\ Truthy(qr_data[r])
    /\ shown' = [shown EXCEPT ![r] = TRUE]
    /\ pc' = [pc EXCEPT ![r] = "analytics"]
    /\ UNCHANGED <<qr, shared, sweepLocals, inputs, createLocals>>

\* lines 262-269: generate_qr raises (payload over capacity, unreadable logo)
RenderFail(r) ==
    /\ pc[r] = "render"
    /\ Exit(r, "aborted")
    /\ UNCHANGED <<qr, shared, shown>>

\* line 289: df = pd.read_sql_query("SELECT * FROM files", conn)
Analytics(r) ==
    /\ pc[r] = "analytics"
    /\ CanRead
    /\ pc' = [pc EXCEPT ![r] = "idle"]
    /\ Forget(r)
    /\ UNCHANGED <<qr, shared, shown>>

\* line 289 raises (database is locked, as at line 41)
AnalyticsFail(r) ==
    /\ pc[r] = "analytics"
    /\ ~CanRead
    /\ Exit(r, "aborted")
    /\ UNCHANGED <<qr, shared, shown>>

\* the steps of a run that need no other session
StepAlone(r) ==
    \/ Begin(r)
    \/ BeginFail(r)
    \/ CleanupNow(r)
    \/ CleanupSelect(r)
    \/ CleanupExists(r)
    \/ CleanupRemove(r)
    \/ CleanupDelete(r)
    \/ CleanupDeleteFail(r)
    \/ CleanupCommit(r)
    \/ CleanupCommitFail(r)
    \/ TextExpiry(r)
    \/ FileWrite(r)
    \/ FileWriteFail(r)
    \/ FileExpiry(r)
    \/ CreateArgs(r)
    \/ CreateInsert(r)
    \/ CreateInsertFail(r)
    \/ CreateCommit(r)
    \/ CreateCommitFail(r)
    \/ Render(r)
    \/ RenderFail(r)
    \/ Analytics(r)

\* the steps of a run; inside a run a read fails only against the PENDING
\* lock a run of another session left while this one was under way
Step(r) ==
    \/ StepAlone(r)
    \/ CleanupSelectFail(r)
    \/ AnalyticsFail(r)

Next ==
    \/ Tick
    \/ ExternalDelete
    \/ \E r \in Runs : Step(r)
    \/ \E r \in Runs : ConnClose(r)

Spec == Init /\ [][Next]_vars

\* A single browser session: one script run at a time.
NextOne ==
    \/ Tick
    \/ ExternalDelete
    \/ StepAlone(1)
    \/ ConnClose(1)

SpecOne == Init /\ [][NextOne]_vars

\* Two sessions whose sweeps follow one another.  Session 2 only ever reruns
\* the script with nothing typed and the other widgets as they stand (their
\* values play no part in such a run), and starts while session 1 is between
\* runs;
\* once its sweep is over it may pause before the analytics query, and while
\* it pauses session 1 reruns the script, also with nothing typed.  Whenever
\* session 2 stands at the analytics query and session 1 is inside a run, the
\* sweep of session 1 was called after the sweep of session 2 returned and no
\* record was created in between.
Resting(r) == pc[r] \in {"idle", "aborted"}

NextTwice ==
    \/ Tick
    \/ ExternalDelete
    \/ Resting(2) /\ Step(1)
    \/ Resting(1) /\ BeginWith(2, qr_mode[2], expire_days[2], None)
    \/ Resting(1) /\ BeginFail(2)
    \/ Resting(1) /\ ~Resting(2) /\ Step(2)
    \/ pc[2] = "analytics" /\ Resting(1)
          /\ BeginWith(1, qr_mode[1], expire_days[1], None)
    \/ pc[2] = "analytics" /\ ~Resting(1) /\ Step(1)
    \/ pc[2] = "analytics" /\ Resting(1) /\ BeginFail(1)
    \/ \E r \in Runs : ConnClose(r)

SpecTwice == Init /\ [][NextTwice]_vars

\* ------------------------------------------------------------ generate_qr
\* Python floats are IEEE-754 doubles.  A positive double is kept here as
\* the pair [m, s] with value m / 2^s, where m is a natural number written as
\* a sequence of limbs (digits in base 2^LimbBits, most significant first).
\* Every quotient and product below is rounded to Precision significant bits,
\* to nearest, ties to even, as the hardware does.
Precision == 53
LimbBits == 13
Base == 2^LimbBits

RECURSIVE BitLen(_)
BitLen(n) == IF n = 0 THEN 0 ELSE 1 + BitLen(n \div 2)

RECURSIVE ToLimbs(_)
ToLimbs(n) == IF n = 0 THEN <<>> ELSE Append(ToLimbs(n \div Base), n % Base)

\* number of bits of the limb sequence m (no leading zero limb)
BitLenLimbs(m) ==
    IF m = <<>> THEN 0 ELSE LimbBits * (Len(m) - 1) + BitLen(m[1])

\* bit i (from 0 at the right) of m
Bit(m, i) ==
    IF i \div LimbBits >= Len(m) THEN 0
    ELSE (m[Len(m) - (i \div LimbBits)] \div 2^(i % LimbBits)) % 2

\* whether adding v (below Base) at limb i carries into limb j < i
CarriesInto(m, i, v, j) ==
    /\ m[i] + v >= Base
    /\ \A l \in (j + 1)..(i - 1) : m[l] = Base - 1

\* m + v * Base^(Len(m) - i) for a limb position i >= 1 and a v below Base
AddAt(m, i, v) ==
    LET sum == [j \in 1..Len(m) |->
                   IF j > i THEN m[j]
                   ELSE IF j = i THEN (m[i] + v) % Base
                   ELSE IF CarriesInto(m, i, v, j) THEN (m[j] + 1) % Base
                   ELSE m[j]]
    IN  IF CarriesInto(m, i, v, 0) THEN <<1>> \o sum ELSE sum

\* m with its k low bits cleared
ClearLow(m, k) ==
    [i \in 1..Len(m) |->
        IF Len(m) - i < k \div LimbBits THEN 0
        ELSE IF Len(m) - i = k \div LimbBits
             THEN m[i] - (m[i] % 2^(k % LimbBits))
        ELSE m[i]]

\* m rounded to a multiple of 2^k, to nearest, ties to even
RoundLow(m, k) ==
    IF k <= 0 THEN m
    ELSE IF Bit(m, k - 1) = 1
            /\ (Bit(m, k) = 1 \/ \E i \in 0..(k - 2) : Bit(m, i) = 1)
         THEN AddAt(ClearLow(m, k), Len(m) - (k \div LimbBits), 2^(k % LimbBits))
    ELSE ClearLow(m, k)

\* the n further limbs of the long division by b from remainder r
RECURSIVE DivTail(_, _, _)
DivTail(r, b, n) ==
    IF n = 0 THEN [q |-> <<>>, r |-> r]
    ELSE LET rest == DivTail((r * Base) % b, b, n - 1)
         IN  [q |-> <<(r * Base) \div b>> \o rest.q, r |-> rest.r]

\* floor(log2(a / b))
Log2Ratio(a, b) ==
    IF BitLen(a) >= BitLen(b)
    THEN IF a >= b * 2^(BitLen(a) - BitLen(b))
         THEN BitLen(a) - BitLen(b) ELSE BitLen(a) - BitLen(b) - 1
    ELSE IF a * 2^(BitLen(b) - BitLen(a)) >= b
         THEN BitLen(a) - BitLen(b) ELSE BitLen(a) - BitLen(b) - 1

\* a / float(b) for integers 0 < a, b < 2^17: with s such that a 2^s / b has
\* Precision bits before the point, the quotient floor(a 2^s / b) rounded up
\* when the remainder is above b / 2, or equal to it and the quotient odd
FloatDiv(a, b) ==
    LET s    == Precision - 1 - Log2Ratio(a, b)
        num  == a * 2^(s % LimbBits)
        tail == DivTail(num % b, b, s \div LimbBits)
        q    == ToLimbs(num \div b) \o tail.q
    IN  [m |-> IF 2 * tail.r > b \/ (2 * tail.r = b /\ q[Len(q)] % 2 = 1)
               THEN AddAt(q, Len(q), 1) ELSE q,
         s |-> s]

\* the limbs of h * m, from the last limb up to limb i
RECURSIVE MulFrom(_, _, _, _)
MulFrom(m, i, carry, h) ==
    IF i = 0 THEN ToLimbs(carry)
    ELSE Append(MulFrom(m, i - 1, (m[i] * h + carry) \div Base, h),
                (m[i] * h + carry) % Base)

\* float(h) * x for an integer 0 < h < 2^17
FloatMul(h, x) ==
    LET prod == MulFrom(x.m, Len(x.m), 0, h)
    IN  [m |-> RoundLow(prod, BitLenLimbs(prod) - Precision), s |-> x.s]

\* the value of the limb sequence m (small enough for an integer)
RECURSIVE LimbsValue(_)
LimbsValue(m) ==
    IF m = <<>> THEN 0
    ELSE LimbsValue(SubSeq(m, 1, Len(m) - 1)) * Base + m[Len(m)]

\* int(x): floor(m / 2^s)
FloatToInt(x) ==
    LET keep == Len(x.m) - (x.s \div LimbBits)
        j    == x.s % LimbBits
    IN  IF keep <= 0 THEN 0
        ELSE LimbsValue(SubSeq(x.m, 1, keep - 1)) * 2^(LimbBits - j)
             + (x.m[keep] \div 2^j)

\* the sliders of lines 201-202
BoxSizeMin == 5
BoxSizeMax == 20
BorderMin == 2
BorderMax == 10

\* bounds of the inputs explored
MaxVersion == 2    \* QR versions 1..MaxVersion (payload length picks one)
LogoStep   == 55   \* logo widths and heights are multiples of LogoStep ...
MaxLogoK   == 4    \* ... up to MaxLogoK * LogoStep; heights also include 1

LogoWidths == {LogoStep * k : k \in 1..MaxLogoK}
LogoHeights == {1} \cup {LogoStep * k : k \in 1..MaxLogoK}

\* lines 121-129: the side of the square image qr.make_image returns for a
\* symbol of the given version (17 + 4 * version modules plus the border)
ImageSide(version, box_size, border) ==
    (17 + 4 * version + 2 * border) * box_size

\* line 133: basewidth = img.size[0] // 4
BaseWidth(W) == W \div 4

\* lines 134-135: wpercent = basewidth / float(logo.size[0]);
\* hsize = int(float(logo.size[1]) * wpercent)
HSize(basewidth, w, h) == FloatToInt(FloatMul(h, FloatDiv(basewidth, w)))

\* lines 144-145: (img.size - logo.size) // 2 on one axis
PasteAt(imgside, logoside) == (imgside - logoside) \div 2

\* generate_qr is called: data selects the version, the sliders the rest,
\* logo_file is None or an image of lw x lh pixels
QRCall ==
    /\ qr.stage = "none"
    /\ \E v \in 1..MaxVersion, s \in BoxSizeMin..BoxSizeMax,
          b \in BorderMin..BorderMax :
          \/ qr' = [stage |-> "call", version |-> v, box_size |-> s,
                    border |-> b, logo |-> None]
          \/ \E lw \in LogoWidths, lh \in LogoHeights :
                qr' = [stage |-> "call", version |-> v, box_size |-> s,
                       border |-> b, logo |-> <<lw, lh>>]
    /\ UNCHANGED registry

\* lines 121-129: the symbol is drawn
QRMakeImage ==
    /\ qr.stage = "call"
    /\ qr' = [stage |-> "image", logo |-> qr.logo,
              img |-> <<ImageSide(qr.version, qr.box_size, qr.border),
                        ImageSide(qr.version, qr.box_size, qr.border)>>]
    /\ UNCHANGED registry

\* line 131 with logo_file None, line 149: the image is returned as it is
QRNoLogo ==
    /\ qr.stage = "image"
    /\ ~Truthy(qr.logo)
    /\ qr' = [stage |-> "returned", logo |-> qr.logo, img |-> qr.img]
    /\ UNCHANGED registry

\* lines 132-143: the logo is resized to (basewidth, hsize)
QRResize ==
    /\ qr.stage = "image"
    /\ Truthy(qr.logo)
    /\ HSize(BaseWidth(qr.img[1]), qr.logo[1], qr.logo[2]) >= 1
    /\ qr' = [stage |-> "resized", logo |-> qr.logo, img |-> qr.img,
              size |-> <<BaseWidth(qr.img[1]),
                         HSize(BaseWidth(qr.img[1]), qr.logo[1], qr.logo[2])>>]
    /\ UNCHANGED registry

\* line 143: Image.resize refuses a height of 0 (ValueError)
QRResizeFail ==
    /\ qr.stage = "image"
    /\ Truthy(qr.logo)
    /\ HSize(BaseWidth(qr.img[1]), qr.logo[1], qr.logo[2]) < 1
    /\ qr' = [stage |-> "raised", logo |-> qr.logo, img |-> qr.img]
    /\ UNCHANGED registry

\* lines 144-149: the logo is pasted at pos and the image returned
QRPaste ==
    /\ qr.stage = "resized"
    /\ qr' = [stage |-> "returned", logo |-> qr.logo, img |-> qr.img,
              size |-> qr.size,
              pos |-> <<PasteAt(qr.img[1], qr.size[1]),
                        PasteAt(qr.img[2], qr.size[2])>>]
    /\ UNCHANGED registry

NextQR ==
    \/ QRCall
    \/ QRMakeImage
    \/ QRNoLogo
    \/ QRResize
    \/ QRResizeFail
    \/ QRPaste

SpecQR == Init /\ [][NextQR]_vars

\* ================================================================== claims
Stored(u) == {y \in Range(files) : y.uuid = u}

ExpiresAt(y) == fromisoformat(y.expires_at)

UploadedAt(y) == fromisoformat(y.uploaded_at)

\* the row the for loop of the sweep of run r is working on
Current(r) == rows[r][idx[r]]

\* C1: when cleanup_expired_files commits, the table is exactly the rows it
\* had with expires_at >= now, each unchanged and in place, and every row with
\* expires_at < now is gone: a row with expires_at = T + t goes at any sweep
\* time after T + t and stays at T + t and before.
C1_SweepBoundary ==
    [][\A r \in Runs : CleanupCommit(r) =>
          /\ files' = SelectSeq(files, LAMBDA y : ExpiresAt(y) >= now[r])
          /\ \A y \in Range(files) :
                ExpiresAt(y) < now[r] => \A z \in Range(files') : z.uuid # y.uuid]_vars

\* a sweep has just committed that deleted a row and kept a row expiring
\* exactly at its `now`
C1_Witness ==
    /\ pc[1] = "analytics"
    /\ Len(files) < nextuuid
    /\ \E y \in Range(files) : ExpiresAt(y) = now[1]

\* C2 (as claimed): the listing is read only after the run's sweep, and no
\* row it shows has an expires_at earlier than the time of the read.
C2_ListingShowsNoExpired ==
    [][\A r \in Runs :
          /\ (pc'[r] = "analytics" /\ pc[r] # "analytics")
                => pc[r] \in {"cleanup_commit", "render"}
          /\ Analytics(r) => \A y \in Range(files) : ~(ExpiresAt(y) < clock)]_vars

\* C3 (as claimed): the row a create inserts has expires_at equal to its
\* uploaded_at plus ttl_days, later than uploaded_at, and scans 0.
C3_ExpiryFromCreatedAt ==
    \A r \in Runs : pc[r] = "create_commit" =>
        \A y \in Range(pending[r].ins) :
            /\ ExpiresAt(y) = UploadedAt(y) + timedelta(expire_days[r])
            /\ ExpiresAt(y) > UploadedAt(y)
            /\ y.scans = 0

\* C4: whatever happens to the backing file (removed, already missing,
\* removal refused) the sweep goes on to the DELETE of the same row, and at
\* its commit every expired row it fetched is out of the table.
C4_SweepSurvivesFileErrors ==
    [][\A r \in Runs :
          /\ (pc[r] \in {"cleanup_exists", "cleanup_remove"} /\ pc'[r] # pc[r])
                => /\ pc'[r] \in {"cleanup_remove", "cleanup_delete"}
                   /\ idx'[r] = idx[r]
                   /\ rows'[r] = rows[r]
          /\ CleanupCommit(r) =>
                \A i \in 1..Len(rows[r]) :
                    ExpiresAt(rows[r][i]) < now[r]
                        => \A z \in Range(files') : z.uuid # rows[r][i].uuid]_vars

\* the loop is over and a row was deleted whose file is still in the temp
\* directory: its removal was refused
C4_Witness ==
    /\ pc[1] = "cleanup_commit"
    /\ \E i \in 1..Len(rows[1]) :
          /\ rows[1][i].uuid \in pending[1].del
          /\ Truthy(rows[1][i].local_path)
          /\ rows[1][i].local_path \in fs

\* C5 (as claimed): while another run is about to read the listing, the sweep
\* never leaves a row in the table whose file it has just removed.
C5_NoHalfDeleted ==
    [][\A r \in Runs : \A s \in Runs \ {r} :
          (CleanupRemove(r) /\ fs' # fs /\ pc[s] = "analytics")
              => \A y \in Range(files') : y.uuid # Current(r).uuid]_vars

\* session 2 has finished its sweep and session 1 is inside a later run
InSuccession == pc[2] = "analytics" /\ ~Resting(1)

\* C6 (as claimed): a sweep called after another sweep, with no record created
\* in between, deletes nothing and leaves the table and the files alone.
C6_SecondSweepDeletesNothing ==
    [][(InSuccession /\ pc'[1] # pc[1]) =>
          /\ files' = files
          /\ fs' = fs
          /\ pending'[1].del = {}]_vars

\* C6 (amended): the second sweep deletes exactly the rows whose expires_at
\* lies between the first sweep's now (included) and its own now (excluded),
\* removes only their files, and leaves the rest of the table as it was.
C6_SecondSweepDeletesNewlyExpired ==
    [][(InSuccession /\ pc'[1] # pc[1]) =>
          /\ pending'[1].del \ pending[1].del # {} =>
                /\ pending'[1].del \ pending[1].del = {Current(1).uuid}
                /\ now[2] <= ExpiresAt(Current(1))
                /\ ExpiresAt(Current(1)) < now[1]
          /\ fs' # fs =>
                /\ fs' = fs \ {Current(1).local_path}
                /\ now[2] <= ExpiresAt(Current(1))
                /\ ExpiresAt(Current(1)) < now[1]
          /\ files' # files =>
                /\ pc[1] = "cleanup_commit"
                /\ now[2] < now[1]
                /\ files' = SelectSeq(files, LAMBDA y : ExpiresAt(y) >= now[1])]_vars

\* the second of two sweeps in succession is about to commit a DELETE
C6_Witness ==
    /\ InSuccession
    /\ pc[1] = "cleanup_commit"
    /\ pending[1].del # {}

\* C7: st.image is reached only with the run's row committed; a failed INSERT
\* or commit ends the run with nothing shown and the table as it was, and
\* the row of a run that ended so never reaches the table; a failed
\* generate_qr leaves the committed row in the table.
C7_ShownOnlyAfterCommit ==
    [][\A r \in Runs :
          /\ (shown'[r] /\ ~shown[r]) =>
                /\ pending[r] = NoPending
                /\ \E y \in Stored(uid[r]) : y.qr_url = qr_data[r]
          /\ (pc[r] \in {"create_insert", "create_commit"} /\ files' = files
              /\ pc'[r] # pc[r] /\ pc'[r] # "create_commit") =>
                /\ pc'[r] = "aborted"
                /\ ~shown'[r]
          /\ pc[r] = "aborted" => ~shown[r]
          /\ r \in stale =>
                \A y \in Range(pending[r].ins) :
                    \A z \in Range(files') : z.uuid # y.uuid
          /\ (pc[r] = "render" /\ pc'[r] = "aborted") =>
                /\ files' = files
                /\ Stored(uid[r]) # {}]_vars

\* the picture is on the page and the run's row is in the table
C7_Witness ==
    /\ pc[1] = "analytics"
    /\ shown[1]
    /\ Stored(uid[1]) # {}

\* C8: a row that stays in the table stays as it was inserted, with scans a
\* natural number that never decreases; rows enter with scans = 0 and leave
\* only at the commit of a sweep.
C8_RowsImmutable ==
    [][/\ \A y \in Range(files) : \A z \in Range(files') :
             z.uuid = y.uuid => (z = y /\ z.scans >= y.scans)
       /\ \A z \in Range(files') :
             (\A y \in Range(files) : y.uuid # z.uuid) => z.scans = 0
       /\ \A z \in Range(files') : z.scans \in Nat
       /\ (\E y \in Range(files) : \A z \in Range(files') : z.uuid # y.uuid)
             => \E r \in Runs : pc[r] = "cleanup_commit" /\ pc'[r] # pc[r]]_vars

\* a sweep has just deleted the first row created and the second one is
\* still in the table
C8_Witness ==
    /\ pc[1] = "analytics"
    /\ Len(files) = 1
    /\ files[1].uuid = 2

\* C10: the commit of a create appends exactly one row, under an id no row
\* had, and leaves every other row as it was, also when a row with the same
\* payload is there; ids in the table are pairwise distinct; only the commit
\* of a sweep makes the table shorter.
C10_CreateOnlyAppends ==
    [][/\ \A r \in Runs : CreateCommit(r) =>
             /\ Len(files') = Len(files) + 1
             /\ SubSeq(files', 1, Len(files)) = files
             /\ files'[Len(files')].uuid = uid[r]
             /\ Stored(uid[r]) = {}
       /\ \A i \in 1..Len(files') : \A j \in 1..Len(files') :
             i # j => files'[i].uuid # files'[j].uuid
       /\ Len(files') < Len(files)
             => \E r \in Runs : pc[r] = "cleanup_commit" /\ pc'[r] # pc[r]]_vars

\* two rows with the same payload are in the table
C10_Witness ==
    /\ Len(files) = 2
    /\ files[1].qr_url = files[2].qr_url
    /\ files[1].uuid # files[2].uuid

\* the call was given a branding image wider than a quarter of the output
WiderThanQuarter == Truthy(qr.logo) /\ 4 * qr.logo[1] > qr.img[1]

\* C9 (as claimed): with a branding image of width w > W / 4, generate_qr
\* resizes it (the call does not raise) to a quarter of W in whole pixels, the
\* height scaled by the same factor to the pixel (aspect ratio preserved,
\* neither side enlarged), and pastes it with margins that differ by at most
\* one pixel on each axis.
C9_QuarterWidthSameRatio ==
    (qr.stage \in {"resized", "raised", "returned"} /\ WiderThanQuarter) =>
        /\ qr.stage # "raised"
        /\ 4 * qr.size[1] <= qr.img[1] /\ qr.img[1] < 4 * (qr.size[1] + 1)
        /\ qr.size[2] * qr.logo[1] > (qr.logo[2] * qr.size[1]) - qr.logo[1]
        /\ qr.size[2] * qr.logo[1] < (qr.logo[2] * qr.size[1]) + qr.logo[1]
        /\ qr.size[1] <= qr.logo[1] /\ qr.size[2] <= qr.logo[2]
        /\ qr.stage = "returned" =>
              \A a \in 1..2 :
                 /\ qr.pos[a] - (qr.img[a] - qr.size[a] - qr.pos[a]) <= 1
                 /\ (qr.img[a] - qr.size[a] - qr.pos[a]) - qr.pos[a] <= 1

============================================================================
